---- MODULE Spec2Model ----
(***************************************************************************)
(* dagster-tableau, dagster_tableau/resources.py.                          *)
(*                                                                         *)
(* BaseTableauClient holds the session (_api_token, _site_id) and the      *)
(* memoized get_workbooks / get_workbook results; BaseTableauWorkspace     *)
(* holds one client for its whole life, opens a session around every       *)
(* fetch (get_client), walks workbooks -> sheets -> embedded data sources  *)
(* -> published data sources into three insertion-ordered dicts, and       *)
(* build_asset_specs turns the views and the data sources into specs.      *)
(*                                                                         *)
(* The remote Tableau site is the environment: every HTTP request is       *)
(* answered by a response drawn from a bounded set at the time of the      *)
(* request.                                                                *)
(***************************************************************************)
EXTENDS Integers, Sequences, FiniteSets, TLC

\* ------------------------------------------------------------------ bounds
MaxCycles == 2
MaxWorkbooks == 2
MaxSheets == 2
MaxEmbedded == 2
MaxPublished == 2
MaxMentions == 2

\* ------------------------------------------------------------------ values
\* Python's None
NULL == "None"

\* Python truthiness of a luid: None and the empty string are falsy.
Truthy(x) == x # NULL /\ x # ""

\* Optional[T] as a sequence of length at most one.
None == << >>
Some(x) == << x >>

SeqsUpTo(S, n) == UNION {[1..k -> S] : k \in 0..n}

RECURSIVE SumSeq(_)
SumSeq(s) == IF s = << >> THEN 0 ELSE Head(s) + SumSeq(Tail(s))

\* ------------------------------------------------- the remote's responses
WorkbookIds == {"w1", "w2"}

\* parentPublishedDatasources entries { luid name }
PublishedDataSources ==
    { [luid |-> NULL, name |-> "a"],
      [luid |-> "",   name |-> "a"],
      [luid |-> "X",  name |-> "a"],
      [luid |-> "X",  name |-> "b"],
      [luid |-> "Y",  name |-> "a"] }

Min(a, b) == IF a <= b THEN a ELSE b

\* parentEmbeddedDatasources entries: each a non-empty list of at most
\* MaxPublished published data sources (at most b here)
EmbeddedDataSources(b) ==
    UNION {[1..k -> PublishedDataSources] : k \in 1..Min(MaxPublished, b)}

\* the lists of n embedded data sources that hold at most b mentions in all
RECURSIVE EmbeddedListsOf(_, _)
EmbeddedListsOf(n, b) ==
    IF n = 0 THEN {<< >>}
    ELSE UNION { { << g >> \o t : t \in EmbeddedListsOf(n - 1, b - Len(g)) } :
                 g \in EmbeddedDataSources(b) }

EmbeddedLists == UNION {EmbeddedListsOf(n, MaxMentions) : n \in 0..MaxEmbedded}

MentionsOfView(eds) == SumSeq([i \in 1..Len(eds) |-> Len(eds[i])])

\* sheets { luid parentEmbeddedDatasources }
SheetLuids == {NULL, "", "v1", "v2"}

Sheets == [luid : SheetLuids, parentEmbeddedDatasources : EmbeddedLists]

MentionsOfSheets(sheets) ==
    SumSeq([i \in 1..Len(sheets) |-> MentionsOfView(sheets[i].parentEmbeddedDatasources)])

\* the lists of n sheets that hold at most b mentions in all
RECURSIVE SheetListsOf(_, _)
SheetListsOf(n, b) ==
    IF n = 0 THEN {<< >>}
    ELSE UNION { { << v >> \o t :
                     t \in SheetListsOf(n - 1,
                               b - MentionsOfView(v.parentEmbeddedDatasources)) } :
                 v \in {x \in Sheets : MentionsOfView(x.parentEmbeddedDatasources) <= b} }

SheetLists == UNION {SheetListsOf(n, MaxMentions) : n \in 0..MaxSheets}

\* The JSON of a 2xx answer to get_workbook: well formed with its sheets, or
\* lacking data / workbooks[0] / sheets.
WorkbookResponses ==
    { [shape |-> "ok", sheets |-> s] : s \in SheetLists }
    \cup { [shape |-> "malformed", sheets |-> << >>] }

\* Workbook ids are opaque to the code (dict keys and request arguments only),
\* so the lists that differ by renaming w1 <-> w2 are drawn once.
WorkbookLists == {w \in SeqsUpTo(WorkbookIds, MaxWorkbooks) : w = << >> \/ w[1] = "w1"}

\* The JSON of a 2xx answer to get_workbooks.
WorkbooksResponses ==
    { [shape |-> "ok", workbook |-> w] : w \in WorkbookLists }
    \cup { [shape |-> "malformed", workbook |-> << >>] }

\* What the sign-in endpoint can answer.
SignInResponses == {"ok", "http_error", "no_token", "no_site"}

\* ------------------------------------------------------------------- state
VARIABLES
    client_built,        \* BaseTableauWorkspace._client is set
    api_token,           \* BaseTableauClient._api_token
    site_id,             \* BaseTableauClient._site_id
    cached_workbooks,    \* @cached_method get_workbooks: Optional response
    cached_workbook,     \* @cached_method get_workbook: workbook_id -> Optional response
    pc,                  \* where the current call stands
    cycle,               \* build_asset_specs calls started so far
    workbook_ids,        \* locals of fetch_tableau_workspace_data
    idx,
    workbooks_by_id,
    views_by_id,
    data_sources_by_id,
    snapshot,            \* Optional TableauWorkspaceData returned by the fetch
    specs,               \* Optional Sequence[AssetSpec] returned by build_asset_specs
    error,               \* the exception the caller received, or NULL
    requests,            \* HTTP requests issued since the current call began
    returned             \* the lists build_asset_specs has returned so far, in call order

vars == << client_built, api_token, site_id, cached_workbooks, cached_workbook, pc,
           cycle, workbook_ids, idx, workbooks_by_id, views_by_id,
           data_sources_by_id, snapshot, specs, error, requests, returned >>

client_vars == << api_token, site_id >>
cache_vars == << cached_workbooks, cached_workbook >>
local_vars == << workbook_ids, idx, workbooks_by_id, views_by_id, data_sources_by_id >>


\* ------------------------------------------ insertion-ordered dict (Python)
\* A dict as the sequence of its items in insertion order.
DictKeys(d) == {d[i].key : i \in 1..Len(d)}
DictHas(d, k) == k \in DictKeys(d)
\* d[k] = v: a new key goes last, an existing key keeps its place
DictSet(d, k, v) ==
    IF DictHas(d, k)
    THEN [i \in 1..Len(d) |-> IF d[i].key = k THEN [key |-> k, value |-> v] ELSE d[i]]
    ELSE Append(d, [key |-> k, value |-> v])
DictValues(d) == [i \in 1..Len(d) |-> d[i].value]

\* ---------------------------------------------------- BaseTableauClient
\* _make_request: the request as it leaves the process. X-tableau-auth carries
\* _api_token whatever its value; sign_in alone sends no auth header.
\* `answer` is what the remote answered: "http_error" for a non-2xx status
\* (raise_for_status raises), else the kind of JSON that came back; `by` is the
\* call of the caller that led to the request.
Request(op, arg, with_auth_header, answer, by) ==
    [ op |-> op, arg |-> arg,
      auth |-> IF with_auth_header THEN api_token ELSE "<no header>",
      answer |-> answer, by |-> by ]

\* a _make_request that sends the request again when the status is not 2xx
MakeRequestWithRetry(log, request) ==
    IF request.answer = "http_error" THEN Append(Append(log, request), request)
    ELSE Append(log, request)
\* lines 96-98: one requests.request per call; raise_for_status raises on a
\* non-2xx status, nothing catches it and nothing sends the request again.
\* `log` is the list of the requests sent before.
MakeRequest(log, request) == Append(log, request)

\* sign_in: the fields after the call, per answer of the sign-in endpoint.
\* raise_for_status and a missing credentials.token raise before any
\* assignment; a missing credentials.site.id raises between the two.
SignInToken(resp) == IF resp \in {"ok", "no_site"} THEN "token" ELSE api_token
SignInSite(resp) == IF resp = "ok" THEN "site" ELSE site_id
\* a sign_in that swallows every failure and returns
SignInNeverRaises(resp) == FALSE
\* lines 133-143: whether sign_in raises
SignInRaises(resp) == resp # "ok"
SignInError(resp) ==
    CASE resp = "ok" -> NULL
      [] resp = "http_error" -> "HTTPError"
      [] OTHER -> "KeyError"

\* ------------------------------------- fetch_tableau_workspace_data, loops
\* a registration without the membership test, as a list would be filled
RegisterDataSourceNoDedup(by_id, published_data_source_data) ==
    IF Truthy(published_data_source_data.luid)
    THEN Append(by_id, [key |-> published_data_source_data.luid,
                        value |-> [content_type |-> "DATA_SOURCE",
                                   properties |-> published_data_source_data]])
    ELSE by_id
\* a registration that overwrites, as the one of the views does
RegisterDataSourceLastWins(by_id, published_data_source_data) ==
    IF Truthy(published_data_source_data.luid)
    THEN DictSet(by_id, published_data_source_data.luid,
                 [content_type |-> "DATA_SOURCE",
                  properties |-> published_data_source_data])
    ELSE by_id
\* a registration without the truthiness test
RegisterDataSourceNoNullCheck(by_id, published_data_source_data) ==
    IF ~DictHas(by_id, published_data_source_data.luid)
    THEN DictSet(by_id, published_data_source_data.luid,
                 [content_type |-> "DATA_SOURCE",
                  properties |-> published_data_source_data])
    ELSE by_id
\* lines 319-324: one published data source under one embedded data source
RegisterDataSource(by_id, published_data_source_data) ==
    LET data_source_id == published_data_source_data.luid
    IN  IF Truthy(data_source_id) /\ ~DictHas(by_id, data_source_id)
        THEN DictSet(by_id, data_source_id,
                     [content_type |-> "DATA_SOURCE",
                      properties |-> published_data_source_data])
        ELSE by_id

RECURSIVE ScanPublished(_, _, _)
ScanPublished(published, j, by_id) ==
    IF j > Len(published) THEN by_id
    ELSE ScanPublished(published, j + 1, RegisterDataSource(by_id, published[j]))

RECURSIVE ScanEmbedded(_, _, _)
ScanEmbedded(embedded, j, by_id) ==
    IF j > Len(embedded) THEN by_id
    ELSE ScanEmbedded(embedded, j + 1, ScanPublished(embedded[j], 1, by_id))

\* a registration that keeps the first occurrence, as the one of the data
\* sources does
RegisterViewFirstWins(by_id, view_data, workbook_id) ==
    IF Truthy(view_data.luid) /\ ~DictHas(by_id, view_data.luid)
    THEN DictSet(by_id, view_data.luid,
                 [content_type |-> "VIEW",
                  properties |-> [luid |-> view_data.luid,
                                  parentEmbeddedDatasources |->
                                      view_data.parentEmbeddedDatasources,
                                  workbook |-> [luid |-> workbook_id]]])
    ELSE by_id
\* a registration without the truthiness test
RegisterViewNoNullCheck(by_id, view_data, workbook_id) ==
    DictSet(by_id, view_data.luid,
            [content_type |-> "VIEW",
             properties |-> [luid |-> view_data.luid,
                             parentEmbeddedDatasources |->
                                 view_data.parentEmbeddedDatasources,
                             workbook |-> [luid |-> workbook_id]]])
\* lines 308-313: one sheet of one workbook
RegisterView(by_id, view_data, workbook_id) ==
    LET view_id == view_data.luid
    IN  IF Truthy(view_id)
        THEN DictSet(by_id, view_id,
                     [content_type |-> "VIEW",
                      properties |-> [luid |-> view_data.luid,
                                      parentEmbeddedDatasources |->
                                          view_data.parentEmbeddedDatasources,
                                      workbook |-> [luid |-> workbook_id]]])
        ELSE by_id

\* lines 307-324: the sheets of one workbook, in payload order
RECURSIVE ScanSheets(_, _, _, _)
ScanSheets(sheets, i, workbook_id, st) ==
    IF i > Len(sheets) THEN st
    ELSE ScanSheets(sheets, i + 1, workbook_id,
             [ views |-> RegisterView(st.views, sheets[i], workbook_id),
               data_sources |->
                   ScanEmbedded(sheets[i].parentEmbeddedDatasources, 1, st.data_sources) ])

\* lines 302-324: one iteration of the workbook loop on the JSON of get_workbook.
\* ["data"]["workbooks"][0] and ["sheets"] raise on a JSON that lacks them,
\* before anything is stored.
ProcessWorkbook(workbook_id, resp) ==
    IF resp.shape # "ok"
    THEN [ workbooks |-> workbooks_by_id, views |-> views_by_id,
           data_sources |-> data_sources_by_id, raised |-> TRUE ]
    ELSE LET st == ScanSheets(resp.sheets, 1, workbook_id,
                       [ views |-> views_by_id, data_sources |-> data_sources_by_id ])
         IN  [ workbooks |-> DictSet(workbooks_by_id, workbook_id,
                                 [content_type |-> "WORKBOOK",
                                  properties |-> [luid |-> workbook_id,
                                                  sheets |-> resp.sheets]]),
               views |-> st.views, data_sources |-> st.data_sources,
               raised |-> FALSE ]

\* ------------------------------------------------------ build_asset_specs
\* DagsterTableauTranslator.get_asset_spec: the spec of one content item,
\* identified by its content type and id.
GetAssetSpec(content) ==
    [content_type |-> content.content_type, id |-> content.properties.luid]

\* the two halves of all_content swapped
AllContentDataSourcesFirst(workspace_data) ==
    DictValues(workspace_data.data_sources_by_id) \o DictValues(workspace_data.views_by_id)
\* an all_content that takes in the workbooks as well
AllContentWithWorkbooks(workspace_data) ==
    DictValues(workspace_data.workbooks_by_id)
    \o DictValues(workspace_data.views_by_id)
    \o DictValues(workspace_data.data_sources_by_id)
\* all_content gathered in a set: the order of iteration follows the hashes
\* and is not the same in every run
AllContentHashOrder(workspace_data) ==
    IF cycle % 2 = 1
    THEN DictValues(workspace_data.views_by_id) \o DictValues(workspace_data.data_sources_by_id)
    ELSE DictValues(workspace_data.data_sources_by_id) \o DictValues(workspace_data.views_by_id)
\* lines 351-354
AllContent(workspace_data) ==
    DictValues(workspace_data.views_by_id) \o DictValues(workspace_data.data_sources_by_id)

\* -------------------------------------------------------------------- Init
Init ==
    /\ client_built = FALSE
    /\ api_token = NULL
    /\ site_id = NULL
    /\ cached_workbooks = None
    /\ cached_workbook = [w \in WorkbookIds |-> None]
    /\ pc = "idle"
    /\ cycle = 0
    /\ workbook_ids = << >>
    /\ idx = 1
    /\ workbooks_by_id = << >>
    /\ views_by_id = << >>
    /\ data_sources_by_id = << >>
    /\ snapshot = None
    /\ specs = None
    /\ error = NULL
    /\ requests = << >>
    /\ returned = << >>

\* No call is in progress: before the first call, or after one returned or raised.
AtRest == pc \in {"idle", "fetched", "done", "failed"}

\* An exception leaves the frame of fetch_tableau_workspace_data: its locals are
\* gone and the caller holds the exception instead of a value.
Unwind(kind) ==
    /\ pc' = "failed"
    /\ error' = kind
    /\ workbook_ids' = << >>
    /\ idx' = 1
    /\ workbooks_by_id' = << >>
    /\ views_by_id' = << >>
    /\ data_sources_by_id' = << >>
    /\ snapshot' = None
    /\ specs' = None

\* An exception raised inside the with block (lines 295-324) is thrown into the
\* generator of get_client at its yield (line 282). The generator has no
\* try/finally around the yield, so line 283 does not run.
RaiseInBlock(kind) ==
    /\ Unwind(kind)
    /\ UNCHANGED client_vars

\* a get_client that calls sign_out when its sign_in has raised
EnterRequestsWithSignOut(resp) ==
    IF resp = "ok" THEN << Request("signin", NULL, FALSE, resp, "fetch") >>
    ELSE << Request("signin", NULL, FALSE, resp, "fetch"),
            Request("signout", NULL, TRUE, "ok", "fetch") >>
\* lines 279-282: the requests made on the way into the with block. An
\* exception of sign_in leaves the generator before its yield: nothing else runs.
EnterRequests(resp) == MakeRequest(<< >>, Request("signin", NULL, FALSE, resp, "fetch"))

\* lines 278-282: a call of build_asset_specs (or of the fetch alone) enters
\* get_client: build_client on first use, then sign_in.
GetClientEnter ==
    /\ AtRest
    /\ cycle < MaxCycles
    /\ cycle' = cycle + 1
    /\ client_built' = TRUE
    /\ \E resp \in SignInResponses :
         /\ requests' = EnterRequests(resp)
         /\ api_token' = SignInToken(resp)
         /\ site_id' = SignInSite(resp)
         /\ IF ~SignInRaises(resp)
            THEN /\ pc' = "get_workbooks"
                 /\ error' = NULL
                 /\ workbook_ids' = << >>
                 /\ idx' = 1
                 /\ workbooks_by_id' = << >>
                 /\ views_by_id' = << >>
                 /\ data_sources_by_id' = << >>
                 /\ snapshot' = None
                 /\ specs' = None
            ELSE Unwind(SignInError(resp))
    /\ UNCHANGED << cache_vars, returned >>

\* dagster._utils.cached_method: a memo owned by the instance, keyed by the
\* call's arguments, that lives as long as the instance; a hit returns the
\* stored value without running the method.
CacheHit(entry) == entry # None

Answer(out) == IF out.status = "non2xx" THEN "http_error" ELSE out.value.shape

\* @cached_method: what a call of get_workbooks can yield. A cached value is
\* returned without a request; otherwise one request is made and its JSON is
\* cached only when the call returns.
GetWorkbooksOutcomes ==
    IF CacheHit(cached_workbooks)
    THEN { [status |-> "cached", value |-> cached_workbooks[1]] }
    ELSE { [status |-> "2xx", value |-> r] : r \in WorkbooksResponses }
         \cup { [status |-> "non2xx", value |-> [shape |-> "malformed", workbook |-> << >>]] }

\* lines 295-300
GetWorkbooks ==
    /\ pc = "get_workbooks"
    /\ \E out \in GetWorkbooksOutcomes :
         /\ requests' = IF out.status = "cached" THEN requests
                        ELSE MakeRequest(requests,
                                 Request("workbooks", site_id, TRUE, Answer(out), "fetch"))
         /\ cached_workbooks' = IF out.status = "2xx" THEN Some(out.value)
                                ELSE cached_workbooks
         /\ IF out.status = "non2xx" THEN RaiseInBlock("HTTPError")
            ELSE IF out.value.shape # "ok" THEN RaiseInBlock("KeyError")
            ELSE /\ workbook_ids' = out.value.workbook
                 /\ idx' = 1
                 /\ workbooks_by_id' = << >>
                 /\ views_by_id' = << >>
                 /\ data_sources_by_id' = << >>
                 /\ pc' = "loop"
                 /\ UNCHANGED << client_vars, snapshot, specs, error >>
    /\ UNCHANGED << client_built, cached_workbook, cycle, returned >>

\* The sheets and the published-data-source mentions the client has cached.
CachedIds == {w \in WorkbookIds : cached_workbook[w] # None}
RECURSIVE CachedSheetsOf(_)
CachedSheetsOf(W) ==
    IF W = {} THEN 0
    ELSE LET w == CHOOSE x \in W : TRUE
         IN  Len(cached_workbook[w][1].sheets) + CachedSheetsOf(W \ {w})
RECURSIVE CachedMentionsOf(_)
CachedMentionsOf(W) ==
    IF W = {} THEN 0
    ELSE LET w == CHOOSE x \in W : TRUE
         IN  MentionsOfSheets(cached_workbook[w][1].sheets) + CachedMentionsOf(W \ {w})
CachedSheets == CachedSheetsOf(CachedIds)
CachedMentions == CachedMentionsOf(CachedIds)

\* The site holds at most MaxSheets sheets and MaxMentions mentions in all.
WithinSite(resp) ==
    /\ CachedSheets + Len(resp.sheets) <= MaxSheets
    /\ CachedMentions + MentionsOfSheets(resp.sheets) <= MaxMentions

\* @cached_method: what a call of get_workbook(workbook_id) can yield.
GetWorkbookOutcomes(workbook_id) ==
    IF CacheHit(cached_workbook[workbook_id])
    THEN { [status |-> "cached", value |-> cached_workbook[workbook_id][1]] }
    ELSE { [status |-> "2xx", value |-> r] : r \in {x \in WorkbookResponses : WithinSite(x)} }
         \cup { [status |-> "non2xx", value |-> [shape |-> "malformed", sheets |-> << >>]] }

\* lines 301-324: one iteration of the workbook loop
GetWorkbook ==
    /\ pc = "loop"
    /\ idx <= Len(workbook_ids)
    /\ LET workbook_id == workbook_ids[idx] IN
       \E out \in GetWorkbookOutcomes(workbook_id) :
         /\ requests' = IF out.status = "cached" THEN requests
                        ELSE MakeRequest(requests,
                                 Request("workbook", workbook_id, TRUE, Answer(out), "fetch"))
         /\ cached_workbook' = IF out.status = "2xx"
                               THEN [cached_workbook EXCEPT ![workbook_id] = Some(out.value)]
                               ELSE cached_workbook
         /\ IF out.status = "non2xx" THEN RaiseInBlock("HTTPError")
            ELSE LET st == ProcessWorkbook(workbook_id, out.value) IN
                 IF st.raised THEN RaiseInBlock("KeyError")
                 ELSE /\ workbooks_by_id' = st.workbooks
                      /\ views_by_id' = st.views
                      /\ data_sources_by_id' = st.data_sources
                      /\ idx' = idx + 1
                      /\ UNCHANGED << client_vars, pc, workbook_ids, snapshot, specs, error >>
    /\ UNCHANGED << client_built, cached_workbooks, cycle, returned >>

\* line 283, then lines 326-331: the block ended normally, the generator
\* resumes after its yield and calls sign_out (lines 145-149); the snapshot is
\* returned once the with statement is left.
GetClientExit ==
    /\ pc = "loop"
    /\ idx > Len(workbook_ids)
    /\ \E answer \in {"ok", "http_error"} :
         /\ requests' = MakeRequest(requests, Request("signout", NULL, TRUE, answer, "fetch"))
         /\ IF answer = "ok"
            THEN /\ api_token' = NULL
                 /\ site_id' = NULL
                 /\ pc' = "fetched"
                 /\ snapshot' = Some([ workbooks_by_id |-> workbooks_by_id,
                                       views_by_id |-> views_by_id,
                                       data_sources_by_id |-> data_sources_by_id ])
                 /\ UNCHANGED << workbook_ids, idx, workbooks_by_id, views_by_id,
                                 data_sources_by_id, specs, error >>
            ELSE /\ Unwind("HTTPError")
                 /\ UNCHANGED client_vars
    /\ UNCHANGED << client_built, cache_vars, cycle, returned >>

\* a build_asset_specs that catches the translator's exception and returns the
\* specs built before it
BuildAssetSpecsPartial ==
    /\ pc = "fetched"
    /\ LET all_content == AllContent(snapshot[1]) IN
       \E n \in 0..Len(all_content) :
         /\ specs' = Some([i \in 1..n |-> GetAssetSpec(all_content[i])])
         /\ returned' = Append(returned, specs'[1])
         /\ pc' = "done"
         /\ UNCHANGED << local_vars, snapshot, error >>
    /\ UNCHANGED << client_built, client_vars, cache_vars, cycle, requests >>

\* lines 348-356: the translation of the snapshot the fetch returned. The
\* translator class is the caller's: its constructor (line 349) or a
\* get_asset_spec (line 356) that raises ends the call without a list.
BuildAssetSpecs ==
    /\ pc = "fetched"
    /\ LET all_content == AllContent(snapshot[1]) IN
       \E raised \in BOOLEAN :
         IF raised
         THEN /\ Unwind("TranslationError")
              /\ UNCHANGED returned
         ELSE /\ specs' = Some([i \in 1..Len(all_content) |-> GetAssetSpec(all_content[i])])
              /\ returned' = Append(returned, specs'[1])
              /\ pc' = "done"
              /\ UNCHANGED << local_vars, snapshot, error >>
    /\ UNCHANGED << client_built, client_vars, cache_vars, cycle, requests >>

\* lines 145-149: the caller calls sign_out on the client itself, between two
\* calls of the workspace. The request is made whatever _api_token holds.
DirectSignOut ==
    /\ client_built
    /\ AtRest
    /\ \E answer \in {"ok", "http_error"} :
         /\ requests' = MakeRequest(<< >>, Request("signout", NULL, TRUE, answer, "direct"))
         /\ IF answer = "ok"
            THEN /\ api_token' = NULL
                 /\ site_id' = NULL
                 /\ pc' = "idle"
                 /\ error' = NULL
                 /\ workbook_ids' = << >>
                 /\ idx' = 1
                 /\ workbooks_by_id' = << >>
                 /\ views_by_id' = << >>
                 /\ data_sources_by_id' = << >>
                 /\ snapshot' = None
                 /\ specs' = None
            ELSE /\ Unwind("HTTPError")
                 /\ UNCHANGED client_vars
    /\ UNCHANGED << client_built, cache_vars, cycle, returned >>

Next ==
    \/ GetClientEnter
    \/ GetWorkbooks
    \/ GetWorkbook
    \/ GetClientExit
    \/ BuildAssetSpecs
    \/ DirectSignOut

Spec == Init /\ [][Next]_vars


\* ================================================================== claims
Range(f) == {f[i] : i \in DOMAIN f}

\* The requests of the current call of the workspace, by operation.
FetchRequests(op) ==
    {i \in 1..Len(requests) : requests[i].by = "fetch" /\ requests[i].op = op}

\* The current call is one of the workspace and its sign_in returned.
SignedIn ==
    /\ requests # << >>
    /\ requests[1].by = "fetch"
    /\ requests[1].op = "signin"
    /\ requests[1].answer = "ok"

\* The current call is one of the workspace and its sign_in raised.
SignInFailed ==
    /\ requests # << >>
    /\ requests[1].by = "fetch"
    /\ requests[1].op = "signin"
    /\ requests[1].answer # "ok"

\* C1: every call of the workspace whose sign_in succeeded has called sign_out
\* by the time it has returned or raised, whatever happened inside the block.
C1_SignOutOnEveryExit ==
    (AtRest /\ SignedIn) => FetchRequests("signout") # {}

\* C2: a second fetch on the same workspace that returns a snapshot has asked
\* the remote again: one get_workbooks request and one get_workbook request per
\* workbook id of the snapshot.
C2_SecondCycleRefetches ==
    (cycle >= 2 /\ snapshot # None) =>
        /\ FetchRequests("workbooks") # {}
        /\ \A w \in DictKeys(snapshot[1].workbooks_by_id) :
             \E i \in FetchRequests("workbook") : requests[i].arg = w

\* C3: sign_out on a client whose session has ended (_api_token is None) makes
\* no sign-out request.
C3_SignOutNoOpWhenEnded ==
    \A i \in 1..Len(requests) :
        requests[i].op = "signout" => requests[i].auth # NULL

RECURSIVE Concat(_)
Concat(ss) == IF ss = << >> THEN << >> ELSE Head(ss) \o Concat(Tail(ss))

\* every sheet walked so far, in traversal order: workbooks in list order
\* (the first idx - 1 of workbook_ids), then sheets in payload order
WalkedSheets ==
    Concat([i \in 1..(idx - 1) |-> cached_workbook[workbook_ids[i]][1].sheets])

\* every published-data-source mention walked so far, in traversal order:
\* then embedded data sources in order, then published data sources in order
WalkedMentions ==
    Concat([i \in 1..Len(WalkedSheets) |->
               Concat(WalkedSheets[i].parentEmbeddedDatasources)])

\* the distinct elements of a sequence, each at the place of its first occurrence
RECURSIVE FirstSeen(_)
FirstSeen(q) ==
    IF q = << >> THEN << >>
    ELSE LET r == FirstSeen(SubSeq(q, 1, Len(q) - 1))
         IN  IF q[Len(q)] \in Range(r) THEN r ELSE Append(r, q[Len(q)])

MentionedIds == {WalkedMentions[i].luid : i \in 1..Len(WalkedMentions)}
SpecsOfType(t) == {i \in 1..Len(specs[1]) : specs[1][i].content_type = t}

\* C5 as stated: in a fetched workspace the data sources registered, and the
\* data-source specs built from it, are as many as the distinct non-null ids
\* mentioned.
C5_DistinctNonNullIds ==
    LET M == Cardinality(MentionedIds \ {NULL})
    IN  snapshot # None =>
          /\ Len(snapshot[1].data_sources_by_id) = M
          /\ specs # None => Cardinality(SpecsOfType("DATA_SOURCE")) = M

\* C5 (amended): the data sources registered, and the data-source specs built,
\* are exactly the distinct truthy ids mentioned (neither null nor the empty
\* string), one entry and one spec each; so it is at every point of the walk,
\* and in the snapshot returned.
C5_DistinctTruthyIds ==
    LET ids == {x \in MentionedIds : Truthy(x)}
    IN  /\ Len(data_sources_by_id) = Cardinality(ids)
        /\ DictKeys(data_sources_by_id) = ids
        /\ snapshot # None => snapshot[1].data_sources_by_id = data_sources_by_id
        /\ specs # None =>
             /\ Cardinality(SpecsOfType("DATA_SOURCE")) = Cardinality(ids)
             /\ {specs[1][i].id : i \in SpecsOfType("DATA_SOURCE")} = ids

\* two sheets of one workbook both mention X (N = 2 mentions, M = 1 id)
C5_Witness ==
    /\ pc = "done"
    /\ Len(WalkedSheets) = 2
    /\ \A i \in 1..2 : WalkedSheets[i].luid \in {"v1", "v2"}
    /\ WalkedSheets[1].luid # WalkedSheets[2].luid
    /\ Len(WalkedMentions) = 2
    /\ MentionedIds = {"X"}
    /\ Len(specs[1]) = 3

\* C6: the entry stored for a data-source id carries the properties of the
\* first mention of that id in traversal order, at every point of the walk.
C6_FirstMentionWins ==
    \A k \in 1..Len(data_sources_by_id) :
        LET id == data_sources_by_id[k].key
            first == CHOOSE i \in 1..Len(WalkedMentions) :
                        /\ WalkedMentions[i].luid = id
                        /\ \A j \in 1..(i - 1) : WalkedMentions[j].luid # id
        IN  data_sources_by_id[k].value =
                [content_type |-> "DATA_SOURCE", properties |-> WalkedMentions[first]]

\* X is mentioned twice with different properties, in two workbooks
C6_Witness ==
    /\ snapshot # None
    /\ Len(workbook_ids) = 2
    /\ workbook_ids[1] # workbook_ids[2]
    /\ Len(WalkedMentions) = 2
    /\ WalkedMentions[1].luid = "X"
    /\ WalkedMentions[2].luid = "X"
    /\ WalkedMentions[1].name # WalkedMentions[2].name
    /\ Len(cached_workbook[workbook_ids[1]][1].sheets) = 1

\* C7: build_asset_specs returns the view specs in traversal order (each view
\* id at its first occurrence), then the data-source specs in first-seen order.
C7_ViewsThenDataSources ==
    specs # None =>
        LET view_ids == FirstSeen(SelectSeq([i \in 1..Len(WalkedSheets) |->
                                                WalkedSheets[i].luid], Truthy))
            ds_ids == FirstSeen(SelectSeq([i \in 1..Len(WalkedMentions) |->
                                              WalkedMentions[i].luid], Truthy))
        IN  specs[1] =
                [i \in 1..Len(view_ids) |-> [content_type |-> "VIEW", id |-> view_ids[i]]]
                \o [i \in 1..Len(ds_ids) |->
                       [content_type |-> "DATA_SOURCE", id |-> ds_ids[i]]]

\* two views in two workbooks, two data sources
C7_Witness ==
    /\ specs # None
    /\ Len(workbook_ids) = 2
    /\ workbook_ids[1] # workbook_ids[2]
    /\ Len(specs[1]) = 4
    /\ Cardinality(SpecsOfType("VIEW")) = 2
    /\ Len(cached_workbook[workbook_ids[1]][1].sheets) = 1

\* C8: a mention whose luid is null adds no entry and no spec, and the walk
\* goes on: the truthy ids mentioned after it are registered all the same, and
\* a walk over well-formed JSON does not raise.
C8_NullMentionSkipped ==
    /\ ~DictHas(data_sources_by_id, NULL)
    /\ specs # None => \A i \in 1..Len(specs[1]) : specs[1][i].id # NULL
    /\ \A i \in 1..Len(WalkedMentions) :
         Truthy(WalkedMentions[i].luid) => DictHas(data_sources_by_id, WalkedMentions[i].luid)
    /\ (pc = "failed" /\ error = "KeyError" /\ SignedIn) =>
         \/ (cached_workbooks # None /\ cached_workbooks[1].shape = "malformed")
         \/ \E w \in WorkbookIds :
              cached_workbook[w] # None /\ cached_workbook[w][1].shape = "malformed"

\* a null mention comes first, a truthy one after it, in the same embedded
\* data source; the walk completes and the specs are built
C8_Witness ==
    /\ pc = "done"
    /\ Len(WalkedMentions) = 2
    /\ WalkedMentions[1].luid = NULL
    /\ WalkedMentions[2].luid = "Y"
    /\ \E i \in 1..Len(WalkedSheets) :
         \E j \in 1..Len(WalkedSheets[i].parentEmbeddedDatasources) :
            Len(WalkedSheets[i].parentEmbeddedDatasources[j]) = 2
    /\ DictKeys(data_sources_by_id) = {"Y"}


\* the first place of x in the list q
FirstPlace(q, x) == CHOOSE i \in 1..Len(q) : q[i] = x /\ \A j \in 1..(i - 1) : q[j] # x

\* C9: get_workbooks and get_workbook requests are made only inside the
\* session: after the sign_in of the call has returned, before its sign_out,
\* carrying a token and (for the list) a site id that are not None. A
\* get_workbook request is made only once the workbook list is known, after
\* the list request of the call if there is one, and the get_workbook requests
\* of a call follow the order of the workbook list.
C9_RequestsInsideSession ==
    LET lists == FetchRequests("workbooks")
        details == FetchRequests("workbook")
    IN  /\ pc \in {"get_workbooks", "loop"} =>
             /\ SignedIn
             /\ api_token # NULL
             /\ site_id # NULL
             /\ FetchRequests("signout") = {}
        /\ \A i \in lists \cup details :
             /\ SignedIn
             /\ i > 1
             /\ requests[i].auth # NULL
             /\ \A j \in FetchRequests("signout") : i < j
        /\ \A i \in lists : requests[i].arg # NULL
        /\ \A i \in details :
             /\ cached_workbooks # None
             /\ cached_workbooks[1].shape = "ok"
             /\ requests[i].arg \in Range(cached_workbooks[1].workbook)
             /\ \A j \in lists : j < i
             /\ \A j \in details :
                  i < j => FirstPlace(cached_workbooks[1].workbook, requests[i].arg)
                           < FirstPlace(cached_workbooks[1].workbook, requests[j].arg)

\* one call: sign_in, the list, two workbooks in list order, sign_out
C9_Witness ==
    /\ Len(requests) = 5
    /\ [i \in 1..5 |-> requests[i].op] =
           << "signin", "workbooks", "workbook", "workbook", "signout" >>
    /\ requests[3].arg = "w1"
    /\ requests[4].arg = "w2"
    /\ pc = "fetched"

\* C10: a call that fails gives the caller an error and neither snapshot nor
\* specs; specs are returned only by a call in which no request failed, every
\* workbook of the list was fetched and stored, and every view and data
\* source of the snapshot was translated.
C10_AllOrNothing ==
    /\ pc = "failed" <=> error # NULL
    /\ pc = "failed" => snapshot = None /\ specs = None
    /\ \A i \in 1..Len(requests) :
         (requests[i].by = "fetch" /\ requests[i].answer # "ok") =>
             pc = "failed" /\ i = Len(requests)
    /\ snapshot # None =>
         /\ pc \in {"fetched", "done"}
         /\ cached_workbooks # None
         /\ cached_workbooks[1].shape = "ok"
         /\ DictKeys(snapshot[1].workbooks_by_id) = Range(cached_workbooks[1].workbook)
         /\ \A w \in Range(cached_workbooks[1].workbook) :
              cached_workbook[w] # None /\ cached_workbook[w][1].shape = "ok"
    /\ specs # None =>
         /\ pc = "done"
         /\ snapshot # None
         /\ Len(specs[1]) = Len(snapshot[1].views_by_id)
                            + Len(snapshot[1].data_sources_by_id)

\* the second workbook's request fails after the first workbook was walked
C10_Witness ==
    /\ pc = "failed"
    /\ Len(requests) = 4
    /\ requests[3].op = "workbook"
    /\ requests[3].answer = "ok"
    /\ requests[4].op = "workbook"
    /\ requests[4].answer = "http_error"
    /\ cached_workbook["w1"] # None
    /\ cached_workbook["w1"][1].shape = "ok"
    /\ Len(cached_workbook["w1"][1].sheets) > 0

\* a request answered with a non-2xx status is the last request of its call:
\* the call has failed with the HTTP error, without a snapshot and without specs
HttpErrorEndsCall ==
    \A i \in 1..Len(requests) :
        requests[i].answer = "http_error" =>
            /\ i = Len(requests)
            /\ pc = "failed"
            /\ error = "HTTPError"
            /\ snapshot = None
            /\ specs = None

\* C11: there is no retry. Every call of the client (sign_in, get_workbooks,
\* get_workbook, sign_out: one step each) sends at most one request, and a
\* request answered with a non-2xx status ends its call with the HTTP error:
\* no request follows it in the call.
C11_NoRetry ==
    /\ []HttpErrorEndsCall
    /\ [][Len(requests') <= Len(requests) + 1]_vars

\* the request for the second workbook is answered non-2xx, after three
\* requests that were answered 2xx
C11_Witness ==
    /\ Len(requests) = 4
    /\ requests[4].op = "workbook"
    /\ requests[4].answer = "http_error"
    /\ \A i \in 1..3 : requests[i].answer = "ok"
    /\ pc = "failed"
    /\ error = "HTTPError"

\* the luids of the sheets walked so far, in traversal order
WalkedSheetLuids == [i \in 1..Len(WalkedSheets) |-> WalkedSheets[i].luid]

\* C12 as stated: a sheet whose luid is null makes the call fail; no snapshot
\* is returned by a fetch that walked such a sheet.
C12_NullViewFails ==
    snapshot # None => NULL \notin Range(WalkedSheetLuids)

\* C12 (amended): a workbook is never skipped, and a JSON that lacks the
\* workbook list, the workbook or its sheets fails the call. A sheet whose
\* luid is null or empty is skipped as a null data-source mention is: it gets
\* no view entry, the walk goes on, the data sources mentioned under it are
\* registered, and the snapshot is returned.
C12_FalsyViewSkipped ==
    /\ DictKeys(workbooks_by_id) = {workbook_ids[i] : i \in 1..(idx - 1)}
    /\ DictKeys(views_by_id) = {x \in Range(WalkedSheetLuids) : Truthy(x)}
    /\ snapshot # None => snapshot[1].views_by_id = views_by_id
    /\ \A i \in 1..Len(WalkedSheets) :
         ~Truthy(WalkedSheets[i].luid) =>
             LET under == Concat(WalkedSheets[i].parentEmbeddedDatasources)
             IN  \A j \in 1..Len(under) :
                    Truthy(under[j].luid) => DictHas(data_sources_by_id, under[j].luid)
    /\ (cached_workbooks # None /\ cached_workbooks[1].shape # "ok") =>
         /\ pc \notin {"loop", "fetched", "done"}
         /\ snapshot = None
    /\ \A w \in WorkbookIds :
         (cached_workbook[w] # None /\ cached_workbook[w][1].shape # "ok") =>
             /\ ~DictHas(workbooks_by_id, w)
             /\ snapshot = None

\* the first sheet has a null luid and mentions X, the second is the view v1:
\* the snapshot holds v1 alone, and X
C12_Witness ==
    /\ snapshot # None
    /\ WalkedSheetLuids = << NULL, "v1" >>
    /\ Len(WalkedSheets[1].parentEmbeddedDatasources) = 1
    /\ WalkedSheets[1].parentEmbeddedDatasources[1][1].luid = "X"
    /\ DictKeys(snapshot[1].views_by_id) = {"v1"}
    /\ DictKeys(snapshot[1].data_sources_by_id) = {"X"}

C14_NoContainerDescriptor ==
    specs # None =>
        LET ws == snapshot[1]
            SpecsFor(t, id) ==
                {i \in 1..Len(specs[1]) :
                    specs[1][i].content_type = t /\ specs[1][i].id = id}
        IN  /\ Len(specs[1]) = Len(ws.views_by_id) + Len(ws.data_sources_by_id)
            /\ \A i \in 1..Len(specs[1]) :
                 specs[1][i].content_type \in {"VIEW", "DATA_SOURCE"}
            /\ \A k \in DictKeys(ws.views_by_id) : Cardinality(SpecsFor("VIEW", k)) = 1
            /\ \A k \in DictKeys(ws.data_sources_by_id) :
                 Cardinality(SpecsFor("DATA_SOURCE", k)) = 1
            /\ (\A k \in 1..Len(ws.workbooks_by_id) :
                    ws.workbooks_by_id[k].value.properties.sheets = << >>)
               => specs[1] = << >>

\* two workbooks, the first without sheets, the second with one view that
\* mentions one data source: two specs
C14_Witness ==
    /\ specs # None
    /\ Len(snapshot[1].workbooks_by_id) = 2
    /\ snapshot[1].workbooks_by_id[1].value.properties.sheets = << >>
    /\ Len(snapshot[1].views_by_id) = 1
    /\ Len(snapshot[1].data_sources_by_id) = 1
    /\ Len(specs[1]) = 2

\* the workbook under which each walked sheet was met, in traversal order
WalkedOwners ==
    Concat([i \in 1..(idx - 1) |->
               [j \in 1..Len(cached_workbook[workbook_ids[i]][1].sheets) |-> workbook_ids[i]]])

\* C15 as stated: in a fetched workspace, a view luid that is not null and
\* appears in more than one sheet has exactly one entry in views_by_id.
C15_NonNullViewStored ==
    snapshot # None =>
        \A i, j \in 1..Len(WalkedSheetLuids) :
            (i < j /\ WalkedSheetLuids[i] = WalkedSheetLuids[j]
                   /\ WalkedSheetLuids[i] # NULL) =>
                Cardinality({k \in 1..Len(snapshot[1].views_by_id) :
                                snapshot[1].views_by_id[k].key = WalkedSheetLuids[i]}) = 1

\* C15 (amended): views_by_id holds one entry per truthy view luid met (neither
\* null nor the empty string). The entry stands
\* at the place of the first occurrence of the luid and carries the properties
\* and the workbook luid of its last occurrence in traversal order; that
\* workbook is a key of workbooks_by_id. The view specs come in the same order.
C15_LastViewWins ==
    LET keys == [k \in 1..Len(views_by_id) |-> views_by_id[k].key]
    IN  /\ keys = FirstSeen(SelectSeq(WalkedSheetLuids, Truthy))
        /\ \A k \in 1..Len(views_by_id) :
             LET last == CHOOSE i \in 1..Len(WalkedSheets) :
                            /\ WalkedSheets[i].luid = keys[k]
                            /\ \A j \in (i + 1)..Len(WalkedSheets) :
                                 WalkedSheets[j].luid # keys[k]
             IN  /\ views_by_id[k].value =
                        [content_type |-> "VIEW",
                         properties |->
                             [luid |-> keys[k],
                              parentEmbeddedDatasources |->
                                  WalkedSheets[last].parentEmbeddedDatasources,
                              workbook |-> [luid |-> WalkedOwners[last]]]]
                 /\ DictHas(workbooks_by_id, views_by_id[k].value.properties.workbook.luid)
        /\ specs # None =>
             SelectSeq(specs[1], LAMBDA x : x.content_type = "VIEW") =
                 [k \in 1..Len(keys) |-> [content_type |-> "VIEW", id |-> keys[k]]]

\* the view v1 is met in workbook w1 and again in workbook w2, with other
\* data sources: one entry, that of w2
C15_Witness ==
    /\ snapshot # None
    /\ WalkedSheetLuids = << "v1", "v1" >>
    /\ WalkedOwners = << "w1", "w2" >>
    /\ WalkedSheets[1].parentEmbeddedDatasources # WalkedSheets[2].parentEmbeddedDatasources
    /\ Len(snapshot[1].views_by_id) = 1
    /\ snapshot[1].views_by_id[1].value.properties.workbook.luid = "w2"

\* C16: the session credentials are set and cleared together: in every
\* reachable state of the client _api_token is None if and only if _site_id
\* is None, also after a sign_in or a sign_out that failed.
C16_SetAndClearedTogether ==
    (api_token = NULL) <=> (site_id = NULL)

====
